---- MODULE Spec2Model ----
(***************************************************************************)
(* Model of merstrm.py: the Streamlit Excel merger.                        *)
(*                                                                         *)
(* The script is re-executed from the top on every user event (a change    *)
(* of the uploaded files, a button click) and on st.rerun().  One action   *)
(* below is one such execution of the script.  st.session_state survives   *)
(* between executions; everything else is rebuilt by each execution.       *)
(*                                                                         *)
(* merge_excel_files_fast and its helpers are operators, computed with     *)
(* the loops of the code turned into recursion.                            *)
(***************************************************************************)
EXTENDS Integers, Sequences, FiniteSets, TLC

VARIABLES
    uploaded_files,   \* st.file_uploader's value: the ordered list of uploaded files
    session_state,    \* st.session_state: merged_data, output_file,
                      \*   performance_metrics, uploaded_files_hash
    merged_data,      \* the script global set at line 208 (None until the call returns)
    page,             \* the messages this execution wrote to the page, in order
    shown,            \* the merged data the "previous results" block displayed, or None
    pc                \* "idle": waiting for the user; "rerun": st.rerun() was called

vars == <<uploaded_files, session_state, merged_data, page, shown, pc>>

----------------------------------------------------------------------------
(* Python values *)

\* None and a present value: an optional value is a sequence of length <= 1.
None == <<>>
Some(x) == <<x>>

\* The empty dict {}.
EmptyDict == [x \in {} |-> <<>>]

\* d[k] = v on a dict.
DictPut(d, k, v) == [x \in (DOMAIN d) \cup {k} |-> IF x = k THEN v ELSE d[x]]

----------------------------------------------------------------------------
(* The files a user can upload.  Each is a name, a size in bytes and a     *)
(* content: whether it is a workbook at all, its ordered sheet names, and  *)
(* per sheet whether reading it succeeds and how many data rows it has.    *)

MiB == 1048576

Catalog == <<
    [name |-> "A.xlsx", size |-> 1 * MiB, opens |-> TRUE,
     sheet_names |-> <<"Sales", "Notes">>,
     sheets |-> [Sales |-> [ok |-> TRUE, rows |-> 2],
                 Notes |-> [ok |-> TRUE, rows |-> 1]]],
    [name |-> "B.xlsx", size |-> 2 * MiB, opens |-> TRUE,
     sheet_names |-> <<"Extra", "Sales", "Notes">>,
     sheets |-> [Extra |-> [ok |-> TRUE, rows |-> 0],
                 Sales |-> [ok |-> TRUE, rows |-> 1],
                 Notes |-> [ok |-> FALSE, rows |-> 0]]],
    [name |-> "C.xlsx", size |-> 3 * MiB, opens |-> TRUE,
     sheet_names |-> <<"Sales">>,
     sheets |-> [Sales |-> [ok |-> FALSE, rows |-> 0]]],
    [name |-> "D.xlsx", size |-> 1 * MiB, opens |-> FALSE,
     sheet_names |-> <<>>,
     sheets |-> EmptyDict],
    [name |-> "A.xlsx", size |-> 1 * MiB, opens |-> TRUE,
     sheet_names |-> <<"Notes", "Sales">>,
     sheets |-> [Notes |-> [ok |-> TRUE, rows |-> 2],
                 Sales |-> [ok |-> FALSE, rows |-> 0]]]
>>

FileIds == DOMAIN Catalog

\* Python's order on the file names (str comparison).
NameOrder == <<"A.xlsx", "B.xlsx", "C.xlsx", "D.xlsx">>
NameRank(n) == CHOOSE r \in DOMAIN NameOrder : NameOrder[r] = n

\* The longest list of files the model uploads.
MaxFiles == 3

RECURSIVE ListsOfLen(_)
ListsOfLen(n) ==
    IF n = 0 THEN {<<>>}
    ELSE {Append(l, f) : l \in ListsOfLen(n - 1), f \in FileIds}

NoRepeat(l) == \A i, j \in DOMAIN l : i # j => l[i] # l[j]

UploadLists == {l \in UNION {ListsOfLen(n) : n \in 0..MaxFiles} : NoRepeat(l)}

----------------------------------------------------------------------------
(* get_files_hash *)

\* Python's tuple comparison on (name, size).
InfoLess(a, b) ==
    \/ NameRank(a[1]) < NameRank(b[1])
    \/ a[1] = b[1] /\ a[2] < b[2]

\* list.sort(): insertion into a sorted list.
SortInsert(x, sorted) ==
    LET k == Cardinality({i \in DOMAIN sorted : ~InfoLess(x, sorted[i])})
    IN SubSeq(sorted, 1, k) \o <<x>> \o SubSeq(sorted, k + 1, Len(sorted))

RECURSIVE SortInfo(_)
SortInfo(file_info) ==
    IF file_info = <<>> THEN <<>>
    ELSE SortInsert(Head(file_info), SortInfo(Tail(file_info)))

\* hash(tuple(file_info)) is modelled by the tuple itself: equal tuples hash
\* equal, and collisions of Python's 64-bit hash are left out.
get_files_hash(files) ==
    IF files = <<>> THEN None
    ELSE Some(SortInfo([i \in DOMAIN files |->
                          <<Catalog[files[i]].name, Catalog[files[i]].size>>]))

----------------------------------------------------------------------------
(* Page messages *)

Msg(kind, sheet, name, n, cause) ==
    [kind |-> kind, sheet |-> sheet, name |-> name, n |-> n, cause |-> cause]

----------------------------------------------------------------------------
(* merge_excel_files_fast *)

\* pd.ExcelFile(f, engine='openpyxl') does not raise.
ExcelFileOpens(f) == Catalog[f].opens

\* pd.read_excel(f, sheet_name=s, engine='openpyxl'): the rows read, or the
\* exception raised.  A data row is the cell content <<file, sheet, k>>.
read_excel(f, s) ==
    IF ~Catalog[f].opens
    THEN [ok |-> FALSE, cause |-> "BadZipFile", df |-> <<>>]
    ELSE IF s \notin DOMAIN Catalog[f].sheets
    THEN [ok |-> FALSE, cause |-> "WorksheetNotFound", df |-> <<>>]
    ELSE IF ~Catalog[f].sheets[s].ok
    THEN [ok |-> FALSE, cause |-> "ReadFailure", df |-> <<>>]
    ELSE [ok |-> TRUE, cause |-> "",
          df |-> [k \in 1..Catalog[f].sheets[s].rows |-> <<f, s, k>>]]

\* df['Source_File'] = uploaded_file.name
AddSourceColumn(df, name) ==
    [k \in DOMAIN df |-> [data |-> df[k], Source_File |-> name]]

AppendBatch_Prepend(all_data, df) == <<df>> \o all_data

\* all_data.append(df)
AppendBatch(all_data, df) == Append(all_data, df)

\* The body of the inner try: tag, append, report the rows read.
OnReadOk(acc, df, name) ==
    [all_data |-> AppendBatch(acc.all_data, AddSourceColumn(df, name)),
     log |-> Append(acc.log, Msg("read", "", name, Len(df), ""))]

OnReadError_Silent(acc, name, cause) == acc

OnReadError_Drop(acc, name, cause) ==
    [all_data |-> <<>>,
     log |-> Append(acc.log, Msg("error", "", name, 0, cause))]

\* The inner except: st.error, continue.
OnReadError(acc, name, cause) ==
    [all_data |-> acc.all_data,
     log |-> Append(acc.log, Msg("error", "", name, 0, cause))]

\* for uploaded_file in uploaded_files: from file i on.
RECURSIVE ReadFiles(_, _, _, _)
ReadFiles(files, sheet_name, i, acc) ==
    IF i > Len(files) THEN acc
    ELSE LET r == read_excel(files[i], sheet_name)
             name == Catalog[files[i]].name
         IN ReadFiles(files, sheet_name, i + 1,
                      IF r.ok THEN OnReadOk(acc, r.df, name)
                      ELSE OnReadError(acc, name, r.cause))

RECURSIVE Flatten(_)
Flatten(batches) ==
    IF batches = <<>> THEN <<>> ELSE Head(batches) \o Flatten(Tail(batches))

pd_concat_DropLast(all_data) == Flatten(SubSeq(all_data, 1, Len(all_data) - 1))

\* pd.concat(all_data, ignore_index=True)
pd_concat(all_data) == Flatten(all_data)

HasData_Always(all_data) == TRUE

\* if all_data:
HasData(all_data) == all_data # <<>>

\* Lines 70-76: store the merged sheet, or warn.
MergeSheet(md, sheet_name, r) ==
    IF HasData(r.all_data)
    THEN LET merged_df == pd_concat(r.all_data)
         IN [merged_data |-> DictPut(md, sheet_name, merged_df),
             log |-> Append(r.log, Msg("merged", sheet_name, "", Len(merged_df), ""))]
    ELSE [merged_data |-> md,
          log |-> Append(r.log, Msg("warning", sheet_name, "", 0, ""))]

\* for sheet_name in sheet_names: from sheet k on.
RECURSIVE ProcessSheets(_, _, _, _)
ProcessSheets(files, sheet_names, k, acc) ==
    IF k > Len(sheet_names) THEN acc
    ELSE LET s == sheet_names[k]
             r == ReadFiles(files, s, 1,
                            [all_data |-> <<>>,
                             log |-> Append(acc.log, Msg("sheet", s, "", 0, ""))])
         IN ProcessSheets(files, sheet_names, k + 1, MergeSheet(acc.merged_data, s, r))

\* The returned dict and the messages written.
merge_excel_files_fast(files) ==
    IF files = <<>>
    THEN [merged_data |-> EmptyDict, log |-> <<>>]
    ELSE IF ~ExcelFileOpens(files[1])
    THEN [merged_data |-> EmptyDict,
          log |-> <<Msg("merge_error", "", "", 0, "BadZipFile")>>]
    ELSE ProcessSheets(files, Catalog[files[1]].sheet_names, 1,
                       [merged_data |-> EmptyDict, log |-> <<>>])

----------------------------------------------------------------------------
(* create_output_file_fast *)

\* The workbook written holds one sheet per entry; writing it may raise
\* (ok = FALSE), and then None is returned.
create_output_file_fast(md, ok) == IF ok THEN Some(md) ELSE None

----------------------------------------------------------------------------
(* The script body *)

\* Lines 12-19: every field starts as None.
InitialSession ==
    [merged_data |-> None, output_file |-> None,
     performance_metrics |-> None, uploaded_files_hash |-> None]

FilesChanged_Never(current_files_hash, stored_hash) == FALSE

\* files_changed (line 129)
FilesChanged(current_files_hash, stored_hash) == current_files_hash # stored_hash

\* Lines 132-136: clear the previous results if the files changed.
ClearIfChanged(ss, current_files_hash) ==
    IF FilesChanged(current_files_hash, ss.uploaded_files_hash)
       /\ ss.merged_data # None
    THEN [merged_data |-> None, output_file |-> None,
          performance_metrics |-> None,
          uploaded_files_hash |-> current_files_hash]
    ELSE ss

\* The condition of the "previous results" block (line 150).
ShowsResults(ss) == ss.merged_data # None /\ ss.output_file # None

ReMerge_KeepOutput(ss) == [ss EXCEPT !.merged_data = None]

\* The Re-merge button's handler (lines 185-187).
ReMerge(ss) ==
    [ss EXCEPT !.merged_data = None, !.output_file = None,
               !.performance_metrics = None]

\* The fewest files the merge button accepts (line 192).
MinFiles == 2

\* The merge button is rendered (lines 191-195).
MergeButtonShown(files, ss) ==
    files # <<>> /\ ss.merged_data = None /\ Len(files) >= MinFiles

NonEmpty_Always(md) == TRUE

\* if merged_data: (line 210) - a dict is true iff it has a key.
NonEmpty(md) == DOMAIN md # {}

RECURSIVE SumSizes(_, _)
SumSizes(files, i) ==
    IF i > Len(files) THEN 0 ELSE Catalog[files[i]].size + SumSizes(files, i + 1)

\* Lines 217-229.  The sizes of the catalog are whole MiB and the speed is
\* kept to its integer part.
Metrics(files, total_time) ==
    LET total_size == SumSizes(files, 1) \div MiB
    IN [time |-> total_time, size |-> total_size,
        speed |-> IF total_time > 0 THEN total_size \div total_time ELSE 0]

\* Lines 223-230.
StoreResults(ss, md, output, metrics, current_files_hash) ==
    [merged_data |-> Some(md), output_file |-> output,
     performance_metrics |-> Some(metrics),
     uploaded_files_hash |-> current_files_hash]

\* The elapsed times the model draws (seconds); 0 takes the speed's else branch.
ElapsedTimes == {0, 2}

\* What the top of the script (lines 127-188, no button clicked) writes.
TopMessages(files, ss) ==
    (IF ShowsResults(ss) THEN <<Msg("previous", "", "", 0, "")>> ELSE <<>>)
    \o (IF files # <<>> /\ ss.merged_data = None /\ Len(files) < MinFiles
        THEN <<Msg("too_few", "", "", 0, "")>> ELSE <<>>)

\* The value the "previous results" block displays.
Displayed(ss) == IF ShowsResults(ss) THEN ss.merged_data ELSE None

----------------------------------------------------------------------------
(* One execution of the script per action *)

Init ==
    /\ uploaded_files = <<>>
    /\ session_state = InitialSession
    /\ merged_data = None
    /\ page = <<>>
    /\ shown = None
    /\ pc = "idle"

\* An execution in which no button is clicked, with `files` uploaded.
RunScript(files) ==
    LET ss == ClearIfChanged(session_state, get_files_hash(files))
    IN /\ uploaded_files' = files
       /\ session_state' = ss
       /\ merged_data' = None
       /\ page' = TopMessages(files, ss)
       /\ shown' = Displayed(ss)
       /\ pc' = "idle"

\* The user adds or removes files.
UploadChange ==
    /\ pc = "idle"
    /\ \E files \in UploadLists :
          /\ files # uploaded_files
          /\ RunScript(files)

\* The execution st.rerun() asked for.
Rerun ==
    /\ pc = "rerun"
    /\ RunScript(uploaded_files)

\* The download button: the script runs again and changes nothing.
ClickDownload ==
    /\ pc = "idle"
    /\ shown # None
    /\ RunScript(uploaded_files)

\* The Re-merge button (lines 184-188).
ClickRemerge ==
    /\ pc = "idle"
    /\ shown # None
    /\ LET ss == ClearIfChanged(session_state, get_files_hash(uploaded_files))
       IN /\ ShowsResults(ss)
          /\ session_state' = ReMerge(ss)
          /\ shown' = Displayed(ss)
          /\ page' = TopMessages(uploaded_files, ss)
          /\ merged_data' = None
          /\ pc' = "rerun"
          /\ UNCHANGED uploaded_files

\* The Start Fast Merge button, the merge and the output succeed (lines 196-236).
MergeAndStore ==
    /\ pc = "idle"
    /\ LET current_files_hash == get_files_hash(uploaded_files)
           ss == ClearIfChanged(session_state, current_files_hash)
           r == merge_excel_files_fast(uploaded_files)
       IN /\ MergeButtonShown(uploaded_files, ss)
          /\ NonEmpty(r.merged_data)
          /\ \E total_time \in ElapsedTimes :
                LET output == create_output_file_fast(r.merged_data, TRUE)
                IN session_state' =
                       StoreResults(ss, r.merged_data, output,
                                    Metrics(uploaded_files, total_time),
                                    current_files_hash)
          /\ merged_data' = Some(r.merged_data)
          /\ page' = TopMessages(uploaded_files, ss) \o r.log
                        \o <<Msg("output_ok", "", "", 0, ""),
                             Msg("completed", "", "", 0, "")>>
          /\ shown' = Displayed(ss)
          /\ pc' = "rerun"
          /\ UNCHANGED uploaded_files

\* The Start Fast Merge button, the merge succeeds and writing the output
\* raises (lines 111-113, 238-239).
MergeOutputFails ==
    /\ pc = "idle"
    /\ LET ss == ClearIfChanged(session_state, get_files_hash(uploaded_files))
           r == merge_excel_files_fast(uploaded_files)
       IN /\ MergeButtonShown(uploaded_files, ss)
          /\ NonEmpty(r.merged_data)
          /\ create_output_file_fast(r.merged_data, FALSE) = None
          /\ session_state' = ss
          /\ merged_data' = Some(r.merged_data)
          /\ page' = TopMessages(uploaded_files, ss) \o r.log
                        \o <<Msg("output_error", "", "", 0, ""),
                             Msg("output_failed", "", "", 0, "")>>
          /\ shown' = Displayed(ss)
          /\ pc' = "idle"
          /\ UNCHANGED uploaded_files

\* The Start Fast Merge button, the merge returns an empty dict (lines 241-242).
MergeNoData ==
    /\ pc = "idle"
    /\ LET ss == ClearIfChanged(session_state, get_files_hash(uploaded_files))
           r == merge_excel_files_fast(uploaded_files)
       IN /\ MergeButtonShown(uploaded_files, ss)
          /\ ~NonEmpty(r.merged_data)
          /\ session_state' = ss
          /\ merged_data' = Some(r.merged_data)
          /\ page' = TopMessages(uploaded_files, ss) \o r.log
                        \o <<Msg("no_data", "", "", 0, "")>>
          /\ shown' = Displayed(ss)
          /\ pc' = "idle"
          /\ UNCHANGED uploaded_files

Next ==
    \/ UploadChange
    \/ Rerun
    \/ ClickDownload
    \/ ClickRemerge
    \/ MergeAndStore
    \/ MergeOutputFails
    \/ MergeNoData

Spec == Init /\ [][Next]_vars

----------------------------------------------------------------------------
(* What the claims speak of, read off the uploaded files' contents *)

\* merge_excel_files_fast has returned in this execution, with Result.
Returned == merged_data # None
Result == merged_data[1]

FileAt(i) == Catalog[uploaded_files[i]]
FirstOpens == FileAt(1).opens

\* The sheet names of the first Source.
Schema == {FileAt(1).sheet_names[k] : k \in DOMAIN FileAt(1).sheet_names}

\* The read of sheet s from the i-th Source succeeds.
ReadOk(i, s) ==
    /\ FileAt(i).opens
    /\ s \in DOMAIN FileAt(i).sheets
    /\ FileAt(i).sheets[s].ok

\* The i-th Source is a workbook without a sheet s.
SheetMissing(i, s) == FileAt(i).opens /\ s \notin DOMAIN FileAt(i).sheets

\* The read fails and the sheet is not simply missing.
ReadBroken(i, s) == ~ReadOk(i, s) /\ ~SheetMissing(i, s)

RowCount(i, s) == IF ReadOk(i, s) THEN FileAt(i).sheets[s].rows ELSE 0

RECURSIVE SumRows(_, _)
SumRows(s, i) ==
    IF i > Len(uploaded_files) THEN 0 ELSE RowCount(i, s) + SumRows(s, i + 1)

\* The rows the i-th Source holds in sheet s, tagged with its name.
TaggedRows(i, s) ==
    [k \in 1..RowCount(i, s) |->
        [data |-> <<uploaded_files[i], s, k>>, Source_File |-> FileAt(i).name]]

\* The rows of the Sources from i on whose read of s succeeds, in list order.
RECURSIVE ExpectedTable(_, _)
ExpectedTable(s, i) ==
    IF i > Len(uploaded_files) THEN <<>>
    ELSE TaggedRows(i, s) \o ExpectedTable(s, i + 1)

\* The position in the uploaded list of the Source a row was read from.
PosOf(row) == CHOOSE i \in DOMAIN uploaded_files : uploaded_files[i] = row.data[1]

\* Message j was written while sheet s was being processed.
InSegment(j, s) ==
    \E p \in 1..j :
        /\ page[p].kind = "sheet"
        /\ page[p].sheet = s
        /\ \A q \in (p + 1)..j : page[q].kind # "sheet"

\* The errors naming `name`, with a cause among `causes`, reported for sheet s.
ErrorCount(s, name, causes) ==
    Cardinality({j \in DOMAIN page :
                    /\ page[j].kind = "error"
                    /\ page[j].name = name
                    /\ page[j].cause \in causes
                    /\ InSegment(j, s)})

\* The reads attempted for sheet s, successful or not.
AttemptCount(s) ==
    Cardinality({j \in DOMAIN page :
                    page[j].kind \in {"read", "error"} /\ InSegment(j, s)})

SameDict(a, b) == DOMAIN a = DOMAIN b /\ \A k \in DOMAIN a : a[k] = b[k]

AllNone(ss) ==
    ss.merged_data = None /\ ss.output_file = None /\ ss.performance_metrics = None

AllSet(ss) ==
    ss.merged_data # None /\ ss.output_file # None /\ ss.performance_metrics # None

----------------------------------------------------------------------------
(* Claims *)

\* C1: with a readable first Source, the keys of the returned mapping are
\* Schema sheet names, and a Schema sheet name is a key iff at least one
\* Source's read of that sheet succeeds (no key for a sheet nobody could read).
C1_KeysIffSomeReadSucceeds ==
    (Returned /\ FirstOpens) =>
        /\ DOMAIN Result \subseteq Schema
        /\ \A s \in Schema :
              (s \in DOMAIN Result) <=> (\E i \in DOMAIN uploaded_files : ReadOk(i, s))

C1_Witness ==
    /\ Returned
    /\ FirstOpens
    /\ \E s \in Schema : s \notin DOMAIN Result
    /\ \E s \in Schema : s \in DOMAIN Result /\ Result[s] = <<>>
    /\ \E s \in Schema : s \in DOMAIN Result /\ Result[s] # <<>>

\* C2: the row count of every merged table is the sum of the row counts of the
\* (source, sheet) pairs whose read succeeded.
C2_RowCountIsSumOfReads ==
    Returned => \A s \in DOMAIN Result : Len(Result[s]) = SumRows(s, 1)

C2_Witness ==
    /\ Returned
    /\ \E s \in DOMAIN Result :
          /\ \E i, j \in DOMAIN uploaded_files :
                i # j /\ RowCount(i, s) > 0 /\ RowCount(j, s) > 0
          /\ \E i \in DOMAIN uploaded_files : ~ReadOk(i, s)
          /\ Len(Result[s]) >= 3

\* C3: in every merged table the rows of an earlier Source precede those of a
\* later one, the rows of one Source keep their order, and every row's
\* Source_File is the name of the Source it was read from.
C3_RowsInSourceOrder ==
    Returned => \A s \in DOMAIN Result :
        /\ \A p \in DOMAIN Result[s] :
              /\ \E i \in DOMAIN uploaded_files : uploaded_files[i] = Result[s][p].data[1]
              /\ Result[s][p].data[2] = s
              /\ Result[s][p].Source_File = Catalog[Result[s][p].data[1]].name
        /\ \A p, q \in DOMAIN Result[s] :
              p < q =>
                 \/ PosOf(Result[s][p]) < PosOf(Result[s][q])
                 \/ /\ PosOf(Result[s][p]) = PosOf(Result[s][q])
                    /\ Result[s][p].data[3] < Result[s][q].data[3]

C3_Witness ==
    /\ Returned
    /\ \E s \in DOMAIN Result :
          \E p, q, r \in DOMAIN Result[s] :
             /\ p < q /\ q < r
             /\ PosOf(Result[s][p]) = PosOf(Result[s][q])
             /\ PosOf(Result[s][q]) < PosOf(Result[s][r])
             /\ uploaded_files[PosOf(Result[s][r])] < uploaded_files[PosOf(Result[s][p])]

\* C4: when some pair's read fails, the merge is not aborted, every pair is
\* still attempted, and every Schema sheet gets exactly the rows of the pairs
\* that could be read, as if the failing pair had contributed no rows.
C4_FailureIsolated ==
    (Returned /\ FirstOpens
       /\ \E s \in Schema : \E i \in DOMAIN uploaded_files : ~ReadOk(i, s)) =>
        /\ \A j \in DOMAIN page : page[j].kind # "merge_error"
        /\ \A s \in Schema :
              /\ AttemptCount(s) = Len(uploaded_files)
              /\ IF \E i \in DOMAIN uploaded_files : ReadOk(i, s)
                 THEN s \in DOMAIN Result /\ Result[s] = ExpectedTable(s, 1)
                 ELSE s \notin DOMAIN Result

C4_Witness ==
    /\ Returned
    /\ FirstOpens
    /\ \E s, t \in Schema :
          /\ s # t
          /\ \E i, j \in DOMAIN uploaded_files :
                i < j /\ ReadBroken(i, s) /\ ReadOk(j, s) /\ RowCount(j, s) > 0
          /\ s \in DOMAIN Result
          /\ t \in DOMAIN Result

\* C5: when the first Source cannot be opened, the merge reports one error
\* and returns no sheet without attempting any read, no output is written
\* and nothing is stored in the session state.
C5_UnreadableFirstIsFatal ==
    (Returned /\ ~FirstOpens) =>
        /\ DOMAIN Result = {}
        /\ \E j \in DOMAIN page : page[j].kind = "merge_error"
        /\ \A j \in DOMAIN page : page[j].kind \in {"merge_error", "no_data"}
        /\ AllNone(session_state)
        /\ pc = "idle"

C5_Witness ==
    /\ Returned
    /\ ~FirstOpens
    /\ Len(uploaded_files) >= 3
    /\ \A i \in DOMAIN uploaded_files : i > 1 => FileAt(i).opens
    /\ \E i \in DOMAIN uploaded_files :
          \A s \in DOMAIN FileAt(i).sheets : ReadOk(i, s)

\* C6: a Source without a Schema sheet contributes no rows to that sheet and
\* no error is reported for that pair.
C6_MissingSheetIsNoError ==
    (Returned /\ FirstOpens) =>
        \A s \in Schema : \A i \in DOMAIN uploaded_files :
            SheetMissing(i, s) =>
               /\ s \in DOMAIN Result =>
                     \A p \in DOMAIN Result[s] : Result[s][p].data[1] # uploaded_files[i]
               /\ ErrorCount(s, FileAt(i).name, {"WorksheetNotFound"}) = 0

\* C7: every pair whose read fails on a sheet that is not simply missing is
\* reported by exactly one error naming its Source, and the remaining pairs of
\* the sheet are still read.
C7_EveryReadFailureReported ==
    (Returned /\ FirstOpens) =>
        \A s \in Schema :
           /\ \A i \in DOMAIN uploaded_files :
                 ErrorCount(s, FileAt(i).name, {"ReadFailure", "BadZipFile"}) =
                    Cardinality({j \in DOMAIN uploaded_files :
                                    FileAt(j).name = FileAt(i).name /\ ReadBroken(j, s)})
           /\ AttemptCount(s) = Len(uploaded_files)

C7_Witness ==
    /\ Returned
    /\ FirstOpens
    /\ \E s \in Schema : \E i, j, k \in DOMAIN uploaded_files :
          /\ i < j /\ j < k
          /\ ReadBroken(i, s)
          /\ ReadBroken(j, s)
          /\ ReadOk(k, s)
          /\ FileAt(i).opens
          /\ ~FileAt(j).opens

\* C8: previous results are displayed only while the stored fingerprint is
\* that of the uploaded files, and an execution that starts with stored
\* results under another fingerprint clears the three result fields and
\* displays nothing.
C8_CacheKeyedByFingerprint ==
    /\ [](shown # None =>
             session_state.uploaded_files_hash = get_files_hash(uploaded_files))
    /\ [][(/\ session_state.merged_data # None
           /\ session_state.uploaded_files_hash # get_files_hash(uploaded_files'))
          => (AllNone(session_state') /\ shown' = None)]_vars

\* Results stored for two or more files were cleared for a single file.
C8_Witness ==
    /\ shown = None
    /\ AllNone(session_state)
    /\ Len(uploaded_files) = 1
    /\ session_state.uploaded_files_hash = get_files_hash(uploaded_files)

\* C9: whenever previous results are displayed, they are what the merge of
\* the currently uploaded list returns.
C9_DisplayedResultsAreCurrent ==
    shown # None =>
        SameDict(shown[1], merge_excel_files_fast(uploaded_files).merged_data)

\* C10: the three result fields are all None or all set; they become set
\* only by an execution whose merge returned a non-empty result and whose
\* output was written, and an execution whose merge or output failed leaves
\* the session state as it was.
C10_ResultsAllOrNothing ==
    /\ [](AllNone(session_state) \/ AllSet(session_state))
    /\ [][(session_state.merged_data = None /\ session_state'.merged_data # None)
          => (/\ merged_data' # None
              /\ DOMAIN merged_data'[1] # {}
              /\ session_state'.merged_data = merged_data'
              /\ session_state'.output_file = Some(merged_data'[1])
              /\ AllSet(session_state'))]_vars
    /\ [][(merged_data' # None /\ pc' = "idle")
          => session_state' = session_state]_vars

C10_Witness ==
    /\ pc = "idle"
    /\ shown # None
    /\ AllSet(session_state)
    /\ session_state.performance_metrics[1].time = 0

====
